---- MODULE Spec2Model ----
(***************************************************************************)
(* A model of calibrate/run-qemu.py: the calibration pipeline that boots a *)
(* VM twice (without and with networking), reduces the two logs of each    *)
(* boot to a dictionary of counters and prints ten calibration figures.    *)
(*                                                                         *)
(* Text is modelled as a sequence of tokens.  A token is one character     *)
(* (" ", "=", ":", "-", "+", "_", a digit) or one word that contains none  *)
(* of these characters ("PAGESIZE", "Kernel", "/boot/vmlinuz").            *)
(***************************************************************************)
EXTENDS Integers, Sequences, FiniteSets, TLC

VARIABLES
  pc,           \* the statement the interpreter is at
  params,       \* the dictionary params
  fs,           \* the files of the temporary directory
  elfcorehdr,   \* the build_elfcorehdr object
  initrd,       \* the build_initrd object
  run_results,  \* run_qemu's local dictionary results
  locals,       \* run_qemu's locals kernel_base (each value) and memmap_pages
  results,      \* the module-level results
  netresults,   \* the module-level netresults
  stdout,       \* the lines printed to standard output
  stderr,       \* the diagnostics and tracebacks on standard error
  kernel_out,   \* the target-kernel resolver's output lines
  hist          \* history: the steps taken, the tools run and their outcome

vars == <<pc, params, fs, elfcorehdr, initrd, run_results, locals, results,
          netresults, stdout, stderr, kernel_out, hist>>

-----------------------------------------------------------------------------
(* Program constants *)

\* params['TOTAL_RAM'] = 1024 * 1024
TOTAL_RAM == 1024 * 1024

\* params['NUMCPUS'] = 2
NUMCPUS == 2

\* ADDR_ELFCOREHDR = 768 * 1024 * 1024
ADDR_ELFCOREHDR == 768 * 1024 * 1024

\* The tuple `keys` of the final report.
keys == << <<"KERNEL_BASE">>, <<"KERNEL_INIT">>, <<"INIT_CACHED">>,
           <<"PAGESIZE">>, <<"SIZEOFPAGE">>, <<"PERCPU">>, <<"USER_BASE">>,
           <<"INIT_NET">>, <<"INIT_CACHED_NET">>, <<"USER_NET">> >>

-----------------------------------------------------------------------------
(* Python text primitives, as the interpreter computes them *)

Digit == {"0", "1", "2", "3", "4", "5", "6", "7", "8", "9"}

DigitVal(c) ==
  CASE c = "0" -> 0 [] c = "1" -> 1 [] c = "2" -> 2 [] c = "3" -> 3
    [] c = "4" -> 4 [] c = "5" -> 5 [] c = "6" -> 6 [] c = "7" -> 7
    [] c = "8" -> 8 [] c = "9" -> 9

DigitChar(d) ==
  CASE d = 0 -> "0" [] d = 1 -> "1" [] d = 2 -> "2" [] d = 3 -> "3"
    [] d = 4 -> "4" [] d = 5 -> "5" [] d = 6 -> "6" [] d = 7 -> "7"
    [] d = 8 -> "8" [] d = 9 -> "9"

\* str.strip(): leading and trailing whitespace removed.
RECURSIVE LStrip(_)
LStrip(s) ==
  IF s # <<>> /\ Head(s) = " " THEN LStrip(Tail(s)) ELSE s

RECURSIVE RStrip(_)
RStrip(s) ==
  IF s # <<>> /\ s[Len(s)] = " " THEN RStrip(SubSeq(s, 1, Len(s) - 1)) ELSE s

Strip(s) == RStrip(LStrip(s))

\* str.split(sep): the fields between the occurrences of sep, all of them.
RECURSIVE Split(_, _)
Split(s, sep) ==
  IF \E i \in 1..Len(s) : s[i] = sep
  THEN LET i == CHOOSE j \in 1..Len(s) :
                  s[j] = sep /\ \A k \in 1..(j - 1) : s[k] # sep
       IN  <<SubSeq(s, 1, i - 1)>> \o Split(SubSeq(s, i + 1, Len(s)), sep)
  ELSE <<s>>

\* The digits of an int() argument, underscores dropped, read in base 10.
RECURSIVE DigitsValue(_, _)
DigitsValue(s, acc) ==
  IF s = <<>> THEN acc
  ELSE IF Head(s) = "_" THEN DigitsValue(Tail(s), acc)
  ELSE DigitsValue(Tail(s), 10 * acc + DigitVal(Head(s)))

\* int(val): surrounding whitespace is ignored, one sign is allowed, and the
\* digits may be grouped by single underscores; anything else is a ValueError.
PyInt(val) ==
  LET t    == Strip(val)
      neg  == t # <<>> /\ Head(t) = "-"
      sgn  == t # <<>> /\ Head(t) \in {"-", "+"}
      body == IF sgn THEN Tail(t) ELSE t
      ok   == /\ body # <<>>
              /\ \A i \in 1..Len(body) : body[i] \in Digit \cup {"_"}
              /\ body[1] \in Digit
              /\ body[Len(body)] \in Digit
              /\ \A i \in 1..(Len(body) - 1) :
                    ~(body[i] = "_" /\ body[i + 1] = "_")
      mag  == DigitsValue(body, 0)
  IN  IF ok THEN [ok |-> TRUE, val |-> IF neg THEN 0 - mag ELSE mag]
      ELSE [ok |-> FALSE, val |-> 0]

\* '{:d}'.format(n)
RECURSIVE FormatNat(_)
FormatNat(n) ==
  IF n < 10 THEN <<DigitChar(n)>>
  ELSE FormatNat(n \div 10) \o <<DigitChar(n % 10)>>

FormatInt(n) == IF n < 0 THEN <<"-">> \o FormatNat(0 - n) ELSE FormatNat(n)

\* '{}={:d}'.format(key, results[key])
FormatReportLine(key, n) == key \o <<"=">> \o FormatInt(n)

-----------------------------------------------------------------------------
(* Dictionaries *)

EmptyDict == [k \in {} |-> 0]

\* d[k] = v
DictSet(d, k, v) == [x \in (DOMAIN d) \cup {k} |-> IF x = k THEN v ELSE d[x]]

\* k in d
Has(d, k) == k \in DOMAIN d

K(name) == <<name>>

-----------------------------------------------------------------------------
(* run_qemu: the Log Reducer, lines 192-194 and 201-203 *)

\* (key, val) = line.strip().split('=')
SplitKeyVal(line) == Split(Strip(line), "=")

\* A loop body that passes over a line it cannot split in two.
ReduceLine_Skipping(r, line) ==
  LET parts == SplitKeyVal(line)
  IN  IF Len(parts) # 2 THEN [err |-> "none", map |-> r]
      ELSE LET v == PyInt(parts[2])
           IN  IF ~v.ok THEN [err |-> "ValueError", map |-> r]
               ELSE [err |-> "none", map |-> DictSet(r, parts[1], v.val)]

\* One pass of the loop body: the tuple unpacking raises ValueError unless
\* the split yields exactly two fields, and int(val) raises ValueError
\* unless val is an integer literal; otherwise results[key] = int(val).
ReduceLine(r, line) ==
  LET parts == SplitKeyVal(line)
  IN  IF Len(parts) # 2 THEN [err |-> "ValueError", map |-> r]
      ELSE LET v == PyInt(parts[2])
           IN  IF ~v.ok THEN [err |-> "ValueError", map |-> r]
               ELSE [err |-> "none", map |-> DictSet(r, parts[1], v.val)]

\* The for loop over the parser's output lines; an exception ends it.
RECURSIVE ReduceLines(_, _)
ReduceLines(r, lines) ==
  IF lines = <<>> THEN [err |-> "none", map |-> r]
  ELSE LET one == ReduceLine(r, Head(lines))
       IN  IF one.err # "none" THEN one
           ELSE ReduceLines(one.map, Tail(lines))

-----------------------------------------------------------------------------
(* run_qemu: the per-run derivation, lines 205-218 *)

\* pagesize_kb = pagesize // 1024
PagesizeKb(pagesize) == pagesize \div 1024

\* numpages = (params['TOTAL_RAM'] + pagesize_kb - 1) // pagesize_kb
NumPages(total_ram, pagesize_kb) ==
  (total_ram + pagesize_kb - 1) \div pagesize_kb

\* memmap_pages = (numpages * results['SIZEOFPAGE'] + pagesize - 1) // pagesize
MemmapPagesOf(numpages, sizeofpage, pagesize) ==
  (numpages * sizeofpage + pagesize - 1) \div pagesize

\* memmap_pages as a function of the three inputs it is computed from
MemmapPages(total_ram, pagesize, sizeofpage) ==
  MemmapPagesOf(NumPages(total_ram, PagesizeKb(pagesize)), sizeofpage, pagesize)

\* results['PERCPU'] // params['NUMCPUS']
PercpuPerCpu(percpu, numcpus) == percpu \div numcpus

\* results['KERNEL_BASE'] = kernel_base - results['PERCPU']
KernelBaseResult(kernel_base, percpu) == kernel_base - percpu

DerivationResult(err, map, kernel_base, memmap_pages) ==
  [err |-> err, map |-> map,
   locals |-> [kernel_base |-> kernel_base, memmap_pages |-> memmap_pages]]

\* Lines 205-218 in statement order.  A missing key raises KeyError at the
\* statement that reads it, a PAGESIZE whose pagesize_kb is 0 raises
\* ZeroDivisionError at line 211.  locals.kernel_base holds
\* kernel_base after lines 205, 207 and 213.
Derivation(total_ram, numcpus, r) ==
  IF ~Has(r, K("INIT_MEMFREE")) THEN DerivationResult("KeyError", r, <<>>, <<>>)
  ELSE LET kb1 == total_ram - r[K("INIT_MEMFREE")] IN
  IF ~Has(r, K("INIT_CACHED")) THEN DerivationResult("KeyError", r, <<kb1>>, <<>>)
  ELSE LET kb2 == kb1 - r[K("INIT_CACHED")] IN
  IF ~Has(r, K("PAGESIZE")) THEN DerivationResult("KeyError", r, <<kb1, kb2>>, <<>>)
  ELSE LET pagesize    == r[K("PAGESIZE")]
           pagesize_kb == PagesizeKb(pagesize) IN
  IF pagesize_kb = 0
  THEN DerivationResult("ZeroDivisionError", r, <<kb1, kb2>>, <<>>)
  ELSE LET numpages == NumPages(total_ram, pagesize_kb) IN
  IF ~Has(r, K("SIZEOFPAGE")) THEN DerivationResult("KeyError", r, <<kb1, kb2>>, <<>>)
  ELSE LET memmap_pages == MemmapPagesOf(numpages, r[K("SIZEOFPAGE")], pagesize)
           kb3          == kb2 - memmap_pages * pagesize_kb IN
  IF ~Has(r, K("PERCPU"))
  THEN DerivationResult("KeyError", r, <<kb1, kb2, kb3>>, <<memmap_pages>>)
  ELSE LET r1 == DictSet(r, K("KERNEL_BASE"), KernelBaseResult(kb3, r[K("PERCPU")]))
           r2 == DictSet(r1, K("PERCPU"), PercpuPerCpu(r1[K("PERCPU")], numcpus))
       IN  DerivationResult("none", r2, <<kb1, kb2, kb3>>, <<memmap_pages>>)

-----------------------------------------------------------------------------
(* Module level: the cross-run deltas, lines 256-258 *)

\* The subtraction with its operands exchanged.
Delta_Exchanged(net, nonet, key) == nonet[key] - net[key]

\* netresults[key] - results[key]
Delta(net, nonet, key) == net[key] - nonet[key]

\* The three assignments in order; a key missing from either dictionary
\* raises KeyError.
CrossRun(res, net) ==
  IF ~(Has(net, K("KERNEL_INIT")) /\ Has(res, K("KERNEL_INIT")))
  THEN [err |-> "KeyError", map |-> res]
  ELSE LET r1 == DictSet(res, K("INIT_NET"), Delta(net, res, K("KERNEL_INIT"))) IN
  IF ~(Has(net, K("INIT_CACHED")) /\ Has(r1, K("INIT_CACHED")))
  THEN [err |-> "KeyError", map |-> r1]
  ELSE LET r2 == DictSet(r1, K("INIT_CACHED_NET"), Delta(net, r1, K("INIT_CACHED"))) IN
  IF ~(Has(net, K("USER_BASE")) /\ Has(r2, K("USER_BASE")))
  THEN [err |-> "KeyError", map |-> r2]
  ELSE [err |-> "none",
        map |-> DictSet(r2, K("USER_NET"), Delta(net, r2, K("USER_BASE")))]

-----------------------------------------------------------------------------
(* Module level: the target-kernel resolver's output, lines 224-227 *)

\* The loop over the resolver's lines: the unpacking of line.split(':')
\* raises ValueError unless there are exactly two fields; the line whose key
\* is 'Kernel' sets params['KERNEL'] = val.strip() (the last such line wins).
RECURSIVE FindKernelLines(_, _)
FindKernelLines(p, lines) ==
  IF lines = <<>> THEN [err |-> "none", params |-> p]
  ELSE LET parts == Split(Head(lines), ":")
       IN  IF Len(parts) # 2 THEN [err |-> "ValueError", params |-> p]
           ELSE FindKernelLines(
                  IF parts[1] = K("Kernel")
                  THEN DictSet(p, "KERNEL", Strip(parts[2])) ELSE p,
                  Tail(lines))

-----------------------------------------------------------------------------
(* The outputs of the external programs the pipeline runs *)

\* The longest resolver output considered, in lines.
MaxResolverLines == 2

ResolverLines ==
  { <<"Kernel", ":", " ", "/boot/vmlinuz">>,
    <<"Initrd", ":", " ", "/boot/initrd">>,
    <<"warning">>,
    <<"Kernel", ":", " ", "/boot", ":", "vmlinuz">> }

ResolverOutputs ==
  UNION { [1..n -> ResolverLines] : n \in 0..MaxResolverLines }

\* One line NAME=integer as a parser writes it.
KV(name, n) == <<name, "=">> \o FormatInt(n)

KernelLog(pagesize, sizeofpage, memfree, percpu, kinit) ==
  << KV("PAGESIZE", pagesize), KV("SIZEOFPAGE", sizeofpage),
     KV("INIT_MEMFREE", memfree), KV("PERCPU", percpu),
     KV("KERNEL_INIT", kinit) >>

UserLog(user_base, cached) ==
  << KV("USER_BASE", user_base), KV("INIT_CACHED", cached) >>

\* What kernel.py may print for a boot: complete and plausible output, a
\* negative, a small or an implausible counter, a line that is no NAME=integer,
\* a missing counter, nothing.
KernelLogs ==
  { KernelLog(4096, 64, 900000, 8000, 2000),
    KernelLog(4096, 64, 890000, 8001, 2600),
    KernelLog(0 - 1, 64, 900000, 8000, 2000),
    KernelLog(512, 64, 900000, 8000, 2000),
    KernelLog(4096, 64, 2000000, 8000, 2000),
    << <<"PAGESIZE", ":", "4", "0", "9", "6">>, KV("SIZEOFPAGE", 64),
       KV("INIT_MEMFREE", 900000), KV("PERCPU", 8000), KV("KERNEL_INIT", 2000) >>,
    << KV("PAGESIZE", 4096), KV("SIZEOFPAGE", 64),
       KV("INIT_MEMFREE", 900000), KV("PERCPU", 8000) >>,
    << >> }

\* What maxrss.py may print for a boot.
UserLogs ==
  { UserLog(3000, 5000),
    UserLog(3400, 5200),
    << KV("INIT_CACHED", 5000) >>,
    << >> }

\* kernel.py and maxrss.py are external: each reads a log on standard input
\* and writes NAME=integer lines.  A log is identified with the lines its
\* parser derives from it, so the same log always gives the same lines and
\* an empty log gives none.
ParserOutput(log) == log.lines

-----------------------------------------------------------------------------
(* Files *)

NoImage == [exists |-> FALSE, net |-> FALSE, init |-> FALSE]

NoLog == [exists |-> FALSE, net |-> FALSE, lines |-> <<>>]

NoElfcorehdr == [exists |-> FALSE, bytes |-> 0]

ElfcorehdrObjects ==
  { [rc |-> 0, file |-> [exists |-> TRUE, bytes |-> 4097]],
    [rc |-> 1, file |-> [exists |-> TRUE, bytes |-> 0]],
    [rc |-> 1, file |-> NoElfcorehdr] }

-----------------------------------------------------------------------------
(* The state after the module's first statements, lines 9-33 *)

Init ==
  /\ pc = "find_kernel"
  /\ params = [TOTAL_RAM |-> TOTAL_RAM, NUMCPUS |-> NUMCPUS]
  /\ fs = [elfcorehdr |-> NoElfcorehdr, raw |-> NoImage, xz |-> NoImage,
           messages |-> NoLog, trackrss |-> NoLog]
  /\ elfcorehdr = [built |-> FALSE, address |-> 0, size |-> 0]
  /\ initrd = "none"
  /\ run_results = EmptyDict
  /\ locals = [kernel_base |-> <<>>, memmap_pages |-> <<>>]
  /\ results = EmptyDict
  /\ netresults = EmptyDict
  /\ stdout = <<>>
  /\ stderr = <<>>
  /\ kernel_out = <<>>
  /\ hist = [trace |-> <<>>, vm |-> <<>>, builds |-> <<>>]

\* The history with one more step.
Step(h, name, tag) == [h EXCEPT !.trace = Append(@, <<name, tag>>)]

RunTag == IF params.NET THEN "net" ELSE "nonet"

\* An uncaught exception: the traceback goes to standard error and the
\* interpreter exits with status 1.
Raise(e) ==
  /\ pc' = "aborted"
  /\ stderr' = Append(stderr, e)

-----------------------------------------------------------------------------
(* Lines 220-230: resolve the target kernel *)

\* Line 228: 'KERNEL' in params
KernelResolved(p) == Has(p, "KERNEL")

FindKernel ==
  /\ pc = "find_kernel"
  /\ hist' = Step(hist, "find_kernel", "-")
  /\ \/ \* kdumptool cannot be executed: Popen raises
        /\ Raise("OSError")
        /\ UNCHANGED <<params, kernel_out>>
     \/ \E out \in ResolverOutputs :
          LET found == FindKernelLines(params, out)
          IN  IF found.err # "none"
              THEN /\ Raise(found.err)
                   /\ kernel_out' = out
                   /\ UNCHANGED params
              ELSE /\ params' = found.params
                   /\ IF ~KernelResolved(found.params)
                      THEN /\ stderr' = Append(stderr,
                                          "Cannot determine target kernel")
                           /\ pc' = "exit(1)"
                           /\ kernel_out' = out
                      ELSE \* the output is dropped with the Popen object
                           /\ pc' = "get_kernel_version"
                           /\ kernel_out' = <<>>
                           /\ UNCHANGED stderr
  /\ UNCHANGED <<fs, elfcorehdr, initrd, run_results, locals, results,
                 netresults, stdout>>

(* Lines 232-234: resolve the kernel version *)

GetKernelVersion ==
  /\ pc = "get_kernel_version"
  /\ hist' = Step(hist, "get_kernel_version", "-")
  /\ \/ /\ Raise("OSError")
        /\ UNCHANGED params
     \/ /\ params' = DictSet(params, "KERNELVER", Strip(<<"6.4.0", " ">>))
        /\ pc' = "build_elfcorehdr"
        /\ UNCHANGED stderr
  /\ UNCHANGED <<fs, elfcorehdr, initrd, run_results, locals, results,
                 netresults, stdout, kernel_out>>

(* Lines 114-127, called at line 240: build_elfcorehdr.__init__ *)

\* self.size = (os.stat(self.path).st_size + 1023) // 1024
ElfcorehdrSize(bytes) == (bytes + 1023) \div 1024

BuildElfcorehdr ==
  /\ pc = "build_elfcorehdr"
  /\ \/ \* mkelfcorehdr cannot be executed: subprocess.call raises
        /\ Raise("OSError")
        /\ hist' = Step(hist, "build_elfcorehdr", "-")
        /\ UNCHANGED <<fs, elfcorehdr>>
     \/ \E made \in ElfcorehdrObjects :
          \* the exit status of mkelfcorehdr is not looked at
          /\ fs' = [fs EXCEPT !.elfcorehdr = made.file]
          /\ hist' = [Step(hist, "build_elfcorehdr", "-") EXCEPT
                        !.builds = Append(@, [what |-> "elfcorehdr",
                                              tag |-> "-", ok |-> made.rc = 0])]
          /\ IF ~made.file.exists
             THEN \* os.stat raises
                  Raise("FileNotFoundError") /\ UNCHANGED elfcorehdr
             ELSE /\ elfcorehdr' = [built |-> TRUE,
                                    address |-> ADDR_ELFCOREHDR,
                                    size |-> ElfcorehdrSize(made.file.bytes)]
                  /\ pc' = "install"
                  /\ UNCHANGED stderr
  /\ UNCHANGED <<params, initrd, run_results, locals, results, netresults,
                 stdout, kernel_out>>

(* Lines 35-58, called at lines 242-243, and line 245 *)

Install ==
  /\ pc = "install"
  /\ hist' = Step(hist, "install", "-")
  /\ \/ \* cmake cannot be executed, or os.symlink, os.listdir or os.mkdir
        \* raises
        /\ Raise("OSError")
        /\ UNCHANGED params
     \/ \* the exit status of cmake is not looked at
        /\ params' = DictSet(params, "NET", FALSE)
        /\ pc' = "build_initrd"
        /\ UNCHANGED stderr
  /\ UNCHANGED <<fs, elfcorehdr, initrd, run_results, locals, results,
                 netresults, stdout, kernel_out>>

(* Lines 60-112, called at lines 246 and 250: build_initrd.__init__ *)

\* dracut writes the base archive to `path`, or fails and writes nothing.
AfterDracut(raw, net, ok) ==
  IF ok THEN [exists |-> TRUE, net |-> net, init |-> FALSE] ELSE raw

\* cpio --append adds ./init to the archive at `path`, or fails.
AfterCpio(raw, ok) == IF ok THEN [raw EXCEPT !.init = TRUE] ELSE raw

\* xz -f replaces `path` by `path`.xz, or fails and leaves both as they are.
AfterXz(raw, xz, ok) ==
  IF ok THEN [raw |-> NoImage, xz |-> raw] ELSE [raw |-> raw, xz |-> xz]

\* self.path = path + os.extsep + 'xz'
InitrdPath(path) == path \o <<".", "xz">>

BuildInitrd ==
  /\ pc = "build_initrd"
  /\ \/ \* a tool cannot be executed, or shutil.copy raises
        /\ Raise("OSError")
        /\ hist' = Step(hist, "build_initrd", RunTag)
        /\ UNCHANGED <<fs, initrd>>
     \/ \E dracutOk, cpioOk, xzOk \in BOOLEAN :
          LET raw1 == AfterDracut(fs.raw, params.NET, dracutOk)
              raw2 == AfterCpio(raw1, cpioOk)
              out  == AfterXz(raw2, fs.xz, xzOk)
          IN  \* cpio and xz cannot succeed on a file that is not there;
              \* no exit status is looked at
              /\ cpioOk => raw1.exists
              /\ xzOk => raw2.exists
              /\ fs' = [fs EXCEPT !.raw = out.raw, !.xz = out.xz]
              /\ initrd' = InitrdPath(<<"test-initrd">>)
              /\ hist' = [Step(hist, "build_initrd", RunTag) EXCEPT
                            !.builds = Append(@, [what |-> "initrd",
                                                  tag |-> RunTag,
                                                  ok |-> dracutOk /\ cpioOk /\ xzOk])]
              /\ pc' = "qemu"
              /\ UNCHANGED stderr
  /\ UNCHANGED <<params, elfcorehdr, run_results, locals, results,
                 netresults, stdout, kernel_out>>

(* Lines 143-185: run_qemu up to the VM's exit *)

\* What the VM process leaves behind: its exit status, and whether it
\* opened (and so truncated) the two serial log files before it ended.
Qemu ==
  /\ pc = "qemu"
  /\ \/ \* qemu cannot be executed: subprocess.call raises
        /\ Raise("OSError")
        /\ hist' = Step(hist, "qemu", RunTag)
        /\ UNCHANGED <<fs, run_results>>
     \/ \E rc \in {0, 1}, wrote \in BOOLEAN,
           klog \in KernelLogs, ulog \in UserLogs :
          \* a VM that ends normally has booted the image at initrd.path
          \* and has opened its logs
          /\ rc = 0 => wrote /\ fs.xz.exists
          /\ ~wrote => klog = <<>> /\ ulog = <<>>
          /\ fs' = IF wrote
                   THEN [fs EXCEPT
                           !.messages = [exists |-> TRUE, net |-> params.NET,
                                         lines |-> klog],
                           !.trackrss = [exists |-> TRUE, net |-> params.NET,
                                         lines |-> ulog]]
                   ELSE fs
          \* the exit status of qemu is not looked at
          /\ hist' = [Step(hist, "qemu", RunTag) EXCEPT
                        !.vm = Append(@, [tag |-> RunTag, rc |-> rc,
                                          wrote |-> wrote, image |-> fs.xz,
                                          empty |-> wrote /\ (klog = <<>> \/ ulog = <<>>)])]
          /\ run_results' = EmptyDict
          /\ pc' = "kernel_py"
          /\ UNCHANGED stderr
  /\ UNCHANGED <<params, elfcorehdr, initrd, locals, results, netresults,
                 stdout, kernel_out>>

(* Lines 187-194 and 196-203: the Log Reducer *)

\* One parser run: open() raises if the log is not there, Popen raises if
\* the script cannot be executed, then every line of the script's output
\* is stored in the dictionary.
Reduce(r, log) ==
  IF ~log.exists THEN [err |-> "FileNotFoundError", map |-> r]
  ELSE ReduceLines(r, ParserOutput(log))

KernelPy ==
  /\ pc = "kernel_py"
  /\ hist' = Step(hist, "kernel_py", RunTag)
  /\ \/ /\ Raise("OSError")
        /\ UNCHANGED run_results
     \/ LET red == Reduce(run_results, fs.messages)
        IN  IF red.err # "none"
            THEN Raise(red.err) /\ UNCHANGED run_results
            ELSE /\ run_results' = red.map
                 /\ pc' = "maxrss_py"
                 /\ UNCHANGED stderr
  /\ UNCHANGED <<params, fs, elfcorehdr, initrd, locals, results, netresults,
                 stdout, kernel_out>>

MaxrssPy ==
  /\ pc = "maxrss_py"
  /\ hist' = Step(hist, "maxrss_py", RunTag)
  /\ \/ /\ Raise("OSError")
        /\ UNCHANGED run_results
     \/ LET red == Reduce(run_results, fs.trackrss)
        IN  IF red.err # "none"
            THEN Raise(red.err) /\ UNCHANGED run_results
            ELSE /\ run_results' = red.map
                 /\ pc' = "derive"
                 /\ UNCHANGED stderr
  /\ UNCHANGED <<params, fs, elfcorehdr, initrd, locals, results, netresults,
                 stdout, kernel_out>>

(* Lines 205-218, and the assignments at lines 247, 249 and 251 *)

\* The second scenario left out.
AfterRun_NoSecondRun(net) == "deltas"

\* What follows a scenario: after line 247 the network-enabled scenario
\* (lines 249-251), after line 251 the deltas (line 256).
AfterRun(net) == IF ~net THEN "build_initrd" ELSE "deltas"

Derive ==
  /\ pc = "derive"
  /\ hist' = Step(hist, "derive", RunTag)
  /\ LET d == Derivation(params.TOTAL_RAM, params.NUMCPUS, run_results)
     IN  /\ locals' = d.locals
         /\ IF d.err # "none"
            THEN /\ Raise(d.err)
                 /\ UNCHANGED <<params, run_results, results, netresults>>
            ELSE /\ run_results' = d.map
                 /\ UNCHANGED stderr
                 /\ pc' = AfterRun(params.NET)
                 /\ IF ~params.NET
                    THEN /\ results' = d.map
                         /\ params' = DictSet(params, "NET", TRUE)
                         /\ UNCHANGED netresults
                    ELSE /\ netresults' = d.map
                         /\ UNCHANGED <<params, results>>
  /\ UNCHANGED <<fs, elfcorehdr, initrd, stdout, kernel_out>>

(* Lines 256-258 *)

Deltas ==
  /\ pc = "deltas"
  /\ hist' = Step(hist, "deltas", "-")
  /\ LET x == CrossRun(results, netresults)
     IN  /\ results' = x.map
         /\ IF x.err # "none"
            THEN Raise(x.err)
            ELSE pc' = "report" /\ UNCHANGED stderr
  /\ UNCHANGED <<params, fs, elfcorehdr, initrd, run_results, locals,
                 netresults, stdout, kernel_out>>

(* Lines 260-273: one pass of the loop that prints the report *)

Report ==
  /\ pc = "report"
  /\ LET key == keys[Len(stdout) + 1]
     IN  /\ hist' = Step(hist, "print", key[1])
         /\ IF ~Has(results, key)
            THEN Raise("KeyError") /\ UNCHANGED stdout
            ELSE /\ stdout' = Append(stdout, FormatReportLine(key, results[key]))
                 /\ pc' = IF Len(stdout') = Len(keys) THEN "done" ELSE "report"
                 /\ UNCHANGED stderr
  /\ UNCHANGED <<params, fs, elfcorehdr, initrd, run_results, locals,
                 results, netresults, kernel_out>>

Next ==
  \/ FindKernel
  \/ GetKernelVersion
  \/ BuildElfcorehdr
  \/ Install
  \/ BuildInitrd
  \/ Qemu
  \/ KernelPy
  \/ MaxrssPy
  \/ Derive
  \/ Deltas
  \/ Report

Spec == Init /\ [][Next]_vars

-----------------------------------------------------------------------------
(* The Log Reducer and the derivation on their own *)

\* The steps of a whole execution, in the order of the program text.
ExpectedOrder ==
  << <<"find_kernel", "-">>, <<"get_kernel_version", "-">>,
     <<"build_elfcorehdr", "-">>, <<"install", "-">>,
     <<"build_initrd", "nonet">>, <<"qemu", "nonet">>,
     <<"kernel_py", "nonet">>, <<"maxrss_py", "nonet">>, <<"derive", "nonet">>,
     <<"build_initrd", "net">>, <<"qemu", "net">>,
     <<"kernel_py", "net">>, <<"maxrss_py", "net">>, <<"derive", "net">>,
     <<"deltas", "-">> >>
  \o [i \in 1..Len(keys) |-> <<"print", keys[i][1]>>]

\* The state in which the first scenario's VM has just ended normally and
\* left the two logs klog and ulog, in a VM of total_ram KiB.
AfterFirstQemu(klog, ulog, total_ram) ==
  /\ pc = "kernel_py"
  /\ params = [TOTAL_RAM |-> total_ram, NUMCPUS |-> NUMCPUS,
               KERNEL |-> <<"/boot/vmlinuz">>, KERNELVER |-> <<"6.4.0">>,
               NET |-> FALSE]
  /\ fs = [elfcorehdr |-> [exists |-> TRUE, bytes |-> 4097],
           raw |-> NoImage,
           xz |-> [exists |-> TRUE, net |-> FALSE, init |-> TRUE],
           messages |-> [exists |-> TRUE, net |-> FALSE, lines |-> klog],
           trackrss |-> [exists |-> TRUE, net |-> FALSE, lines |-> ulog]]
  /\ elfcorehdr = [built |-> TRUE, address |-> ADDR_ELFCOREHDR,
                   size |-> ElfcorehdrSize(4097)]
  /\ initrd = InitrdPath(<<"test-initrd">>)
  /\ run_results = EmptyDict
  /\ locals = [kernel_base |-> <<>>, memmap_pages |-> <<>>]
  /\ results = EmptyDict
  /\ netresults = EmptyDict
  /\ stdout = <<>>
  /\ stderr = <<>>
  /\ kernel_out = <<>>
  /\ hist = [trace |-> SubSeq(ExpectedOrder, 1, 6),
             vm |-> << [tag |-> "nonet", rc |-> 0, wrote |-> TRUE,
                        image |-> [exists |-> TRUE, net |-> FALSE,
                                   init |-> TRUE],
                        empty |-> klog = <<>> \/ ulog = <<>>] >>,
             builds |-> << [what |-> "elfcorehdr", tag |-> "-", ok |-> TRUE],
                           [what |-> "initrd", tag |-> "nonet", ok |-> TRUE] >>]

\* The longest line a parser prints, in tokens.
MaxLineLen == 4

LineAlphabet == {"K", "=", ":", "4", "-", "_", " "}

AllLines == UNION { [1..n -> LineAlphabet] : n \in 0..MaxLineLen }

\* Every line over the alphabet, as the last line of kernel.py's output or
\* as the last line of maxrss.py's.
InitReduce ==
  \E line \in AllLines :
    \/ AfterFirstQemu(KernelLog(4096, 64, 900000, 8000, 2000) \o <<line>>,
                      UserLog(3000, 5000), TOTAL_RAM)
    \/ AfterFirstQemu(KernelLog(4096, 64, 900000, 8000, 2000),
                      UserLog(3000, 5000) \o <<line>>, TOTAL_RAM)

NextReduce ==
  \/ KernelPy
  \/ MaxrssPy
  \/ Derive

SpecReduce == InitReduce /\ [][NextReduce]_vars

\* The largest VM memory considered, in KiB.
MaxRamKiB == 24

RamValues == 0..MaxRamKiB

PageSizes == {1024, 2048, 4096}

PageDescriptorSizes == {0 - 64, 0, 64, 1500, 4096}

\* run_qemu about to derive, for every VM memory, page size and
\* page-descriptor size considered.
InitMemmap ==
  \E total_ram \in RamValues, pagesize \in PageSizes,
     sizeofpage \in PageDescriptorSizes :
    /\ AfterFirstQemu(KernelLog(pagesize, sizeofpage, 0, 0, 0),
                      UserLog(0, 0), total_ram)

NextMemmap ==
  \/ KernelPy
  \/ MaxrssPy
  \/ Derive

SpecMemmap == InitMemmap /\ [][NextMemmap]_vars

-----------------------------------------------------------------------------
(* Properties *)

Terminated == pc \in {"done", "aborted", "exit(1)"}

IsPrefix(s, t) == Len(s) <= Len(t) /\ s = SubSeq(t, 1, Len(s))

\* The steps of the history named `name`.
StepsNamed(name) == {i \in 1..Len(hist.trace) : hist.trace[i][1] = name}

\* The dictionary with the values of the three counters the deltas read.
ThreeCounters(m, kinit, cached, user) ==
  /\ m[K("KERNEL_INIT")] = kinit
  /\ m[K("INIT_CACHED")] = cached
  /\ m[K("USER_BASE")] = user

\* C6: once the deltas are computed, INIT_NET, INIT_CACHED_NET and USER_NET
\* are the network run's KERNEL_INIT, INIT_CACHED and USER_BASE minus the
\* no-network run's; computing them with the two runs' roles swapped gives
\* exactly the negated values; and for 2000/5000/3000 against
\* 2600/5200/3400 they are 600, 200 and 400.
C6_CrossRunDeltas ==
  pc \in {"report", "done"} =>
    /\ results[K("INIT_NET")] =
         netresults[K("KERNEL_INIT")] - results[K("KERNEL_INIT")]
    /\ results[K("INIT_CACHED_NET")] =
         netresults[K("INIT_CACHED")] - results[K("INIT_CACHED")]
    /\ results[K("USER_NET")] =
         netresults[K("USER_BASE")] - results[K("USER_BASE")]
    /\ LET swapped == CrossRun(netresults, results)
       IN  /\ swapped.err = "none"
           /\ \A k \in {K("INIT_NET"), K("INIT_CACHED_NET"), K("USER_NET")} :
                swapped.map[k] = 0 - results[k]
    /\ ( /\ ThreeCounters(results, 2000, 5000, 3000)
         /\ ThreeCounters(netresults, 2600, 5200, 3400) )
       => /\ results[K("INIT_NET")] = 600
          /\ results[K("INIT_CACHED_NET")] = 200
          /\ results[K("USER_NET")] = 400

\* The report is complete for the runs 2000/5000/3000 and 2600/5200/3400.
C6_Witness ==
  /\ pc = "done"
  /\ ThreeCounters(results, 2000, 5000, 3000)
  /\ ThreeCounters(netresults, 2600, 5200, 3400)
  /\ results[K("INIT_NET")] = 600

\* C7: the steps taken so far are always an initial part of the one order
\* find_kernel, get_kernel_version, build_elfcorehdr, install, then
\* build_initrd, qemu, kernel.py, maxrss.py and the derivation without
\* networking, the same five with networking, the deltas, the ten printed
\* lines; so the core header is built at most once, the network-enabled VM
\* is launched only when the network-disabled run's dictionary is complete,
\* and the deltas are computed at most once and only when both are.
C7_StepOrder ==
  /\ IsPrefix(hist.trace, ExpectedOrder)
  /\ Cardinality(StepsNamed("build_elfcorehdr")) <= 1
  /\ Cardinality(StepsNamed("deltas")) <= 1
  /\ \A i \in 1..Len(hist.vm) :
       hist.vm[i].tag = "net" =>
         /\ K("KERNEL_BASE") \in DOMAIN results
         /\ \E j \in 1..(i - 1) : hist.vm[j].tag = "nonet"
  /\ StepsNamed("deltas") # {} =>
       /\ K("KERNEL_BASE") \in DOMAIN results
       /\ K("KERNEL_BASE") \in DOMAIN netresults
  /\ stdout # <<>> => StepsNamed("deltas") # {}

\* A whole execution: every step taken, both VMs launched, ten lines out.
C7_Witness ==
  /\ pc = "done"
  /\ hist.trace = ExpectedOrder
  /\ Len(hist.vm) = 2
  /\ Len(stdout) = Len(keys)

\* The launches of the VM that ended abnormally or left an empty log.
FailedLaunches ==
  {i \in 1..Len(hist.vm) : hist.vm[i].rc # 0 \/ hist.vm[i].empty}

\* C1: a VM that exits abnormally or leaves an empty kernel or
\* instrumentation log is fatal for the run: the VM is not launched again
\* and no report line is ever printed, also when the failing launch is the
\* second and the logs still hold the first run's content.
C1_VmFailureIsFatal ==
  \A i \in FailedLaunches :
    /\ Len(hist.vm) = i
    /\ stdout = <<>>
    /\ pc \notin {"report", "done"}

\* C2: a builder that fails is fatal: no report line is ever printed after
\* a failed build, and the network-enabled VM is never booted with the
\* boot image the network-disabled run left at the same path.
C2_BuildFailureIsFatal ==
  /\ (\E i \in 1..Len(hist.builds) : ~hist.builds[i].ok) =>
       /\ stdout = <<>>
       /\ pc \notin {"report", "done"}
  /\ \A i \in 1..Len(hist.vm) :
       hist.vm[i].tag = "net" =>
         ~(hist.vm[i].image.exists /\ ~hist.vm[i].image.net)

\* The counters the derivation and the deltas read from a run's dictionary.
RequiredKeys ==
  {K("INIT_MEMFREE"), K("INIT_CACHED"), K("PAGESIZE"), K("SIZEOFPAGE"),
   K("PERCPU"), K("KERNEL_INIT"), K("USER_BASE")}

\* Standard output holds the ten report lines, in the order of `keys`.
FullReport ==
  /\ Len(stdout) = Len(keys)
  /\ \A i \in 1..Len(keys) :
       /\ Has(results, keys[i])
       /\ stdout[i] = keys[i] \o <<"=">> \o FormatInt(results[keys[i]])

\* No partial report: an execution that has ended has printed nothing or
\* the ten lines in order, and one that was aborted has printed nothing.
NoPartialReport ==
  /\ Terminated => stdout = <<>> \/ FullReport
  /\ pc \in {"aborted", "exit(1)"} => stdout = <<>>

\* A run whose parsers left out a required key prints nothing.
MissingKeyPrintsNothing ==
  \A m \in {run_results, results, netresults} :
    (m # EmptyDict /\ pc \notin {"kernel_py", "maxrss_py"}
       /\ ~(RequiredKeys \subseteq DOMAIN m))
      => stdout = <<>>

\* A run whose PAGESIZE is one of `sizes` prints nothing.
PageSizePrintsNothing(sizes) ==
  \A m \in {run_results, results, netresults} :
    (Has(m, K("PAGESIZE")) /\ m[K("PAGESIZE")] \in sizes) => stdout = <<>>

\* C3: partial results are never emitted, and every failure aborts before
\* the first report line: a required key missing from a run's dictionary,
\* or a PAGESIZE below 1024, leaves standard output empty.
C3_NoPartialResults ==
  /\ NoPartialReport
  /\ MissingKeyPrintsNothing
  /\ PageSizePrintsNothing({n \in Int : n < 1024})

\* The same with PAGESIZE from 0 to 1023, where pagesize_kb is 0.
C3_OnZeroPagesizeKb ==
  /\ NoPartialReport
  /\ MissingKeyPrintsNothing
  /\ PageSizePrintsNothing(0..1023)

\* The least integer that is not below a / b.
CeilDiv(a, b) == 0 - ((0 - a) \div b)

\* The dictionary the two parsers' lines give, read from the logs again.
ParsedLogs ==
  ReduceLines(ReduceLines(EmptyDict, ParserOutput(fs.messages)).map,
              ParserOutput(fs.trackrss)).map

\* A run's derivation has just returned.
JustDerived ==
  /\ hist.trace # <<>>
  /\ hist.trace[Len(hist.trace)][1] = "derive"
  /\ pc # "aborted"

\* C5: when a run's derivation returns, KERNEL_BASE is TOTAL_RAM minus
\* INIT_MEMFREE, INIT_CACHED, memmap_pages * (PAGESIZE/1024) and the
\* reported PERCPU total, where memmap_pages is the ceiling of
\* (ceiling of TOTAL_RAM / (PAGESIZE/1024)) * SIZEOFPAGE / PAGESIZE, and
\* PERCPU becomes the total divided by NUMCPUS; for the counters of the
\* worked example memmap_pages = 4096, KERNEL_BASE = 119192, PERCPU = 4000.
C5_PerRunDerivation ==
  JustDerived =>
    LET in  == ParsedLogs
        ps  == in[K("PAGESIZE")]
        kb  == ps \div 1024
        mm  == CeilDiv(CeilDiv(params.TOTAL_RAM, kb) * in[K("SIZEOFPAGE")], ps)
    IN  /\ locals.memmap_pages = <<mm>>
        /\ run_results[K("KERNEL_BASE")] =
             params.TOTAL_RAM - in[K("INIT_MEMFREE")] - in[K("INIT_CACHED")]
               - mm * kb - in[K("PERCPU")]
        /\ run_results[K("PERCPU")] = in[K("PERCPU")] \div params.NUMCPUS
        /\ ( /\ ps = 4096 /\ in[K("SIZEOFPAGE")] = 64
             /\ in[K("INIT_MEMFREE")] = 900000 /\ in[K("INIT_CACHED")] = 5000
             /\ in[K("PERCPU")] = 8000 /\ params.TOTAL_RAM = 1048576
             /\ params.NUMCPUS = 2 )
           => /\ mm = 4096
              /\ run_results[K("KERNEL_BASE")] = 119192
              /\ run_results[K("PERCPU")] = 4000

\* The derivation on positive page sizes alone.
C5_OnPositivePageSize ==
  (JustDerived /\ ParsedLogs[K("PAGESIZE")] > 0) => C5_PerRunDerivation

\* The worked example has been derived.
C5_Example ==
  /\ JustDerived
  /\ ParsedLogs[K("PAGESIZE")] = 4096
  /\ ParsedLogs[K("INIT_MEMFREE")] = 900000
  /\ run_results[K("KERNEL_BASE")] = 119192
  /\ run_results[K("PERCPU")] = 4000

\* The keys the module adds to `results` after the two runs.
DeltaKeys == {K("INIT_NET"), K("INIT_CACHED_NET"), K("USER_NET")}

\* C9: every value of a dictionary run_qemu builds or returns is a
\* non-negative integer, and so is kernel_base after each subtraction.
C9_NonNegative ==
  /\ \A k \in DOMAIN run_results : run_results[k] >= 0
  /\ \A k \in DOMAIN netresults : netresults[k] >= 0
  /\ \A k \in (DOMAIN results) \ DeltaKeys : results[k] >= 0
  /\ \A i \in 1..Len(locals.kernel_base) : locals.kernel_base[i] >= 0

\* The key of a resolver line: the text before its first ':'.
ResolverKey(line) == Split(line, ":")[1]

NoKernelLine(out) ==
  \A i \in 1..Len(out) : ResolverKey(out[i]) # K("Kernel")

\* Every line is one key and one value with a single ':' between them.
KeyValueLines(out) ==
  \A i \in 1..Len(out) :
    Cardinality({j \in 1..Len(out[i]) : out[i][j] = ":"}) = 1

\* The execution ended at the resolver step, the resolver having run.
StoppedAtResolver ==
  /\ Terminated
  /\ hist.trace = << <<"find_kernel", "-">> >>
  /\ stderr # <<"OSError">>

\* Nothing was run after the resolver and nothing was printed.
NothingElseRun ==
  /\ hist.builds = <<>>
  /\ hist.vm = <<>>
  /\ ~Has(params, "KERNELVER")
  /\ ~fs.elfcorehdr.exists
  /\ stdout = <<>>

\* C8 as stated: a resolver output with no line whose key is 'Kernel' ends
\* the pipeline with the diagnostic 'Cannot determine target kernel' and a
\* non-zero status, before anything else is run or printed.
C8_AsStated ==
  /\ (StoppedAtResolver /\ NoKernelLine(kernel_out)) =>
       /\ pc = "exit(1)"
       /\ stderr = <<"Cannot determine target kernel">>
       /\ NothingElseRun
  /\ Len(hist.trace) > 1 => Has(params, "KERNEL")

\* What the code does: a resolver output with no line whose key is 'Kernel'
\* ends the pipeline with a non-zero status before anything else is run or
\* printed; the diagnostic 'Cannot determine target kernel' is printed when
\* every line has exactly one ':', and otherwise the tuple assignment of
\* line 225 raises a ValueError that nothing catches, in place of the
\* diagnostic.
C8_TargetKernelUnresolved ==
  /\ (StoppedAtResolver /\ NoKernelLine(kernel_out)) =>
       /\ NothingElseRun
       /\ IF KeyValueLines(kernel_out)
          THEN pc = "exit(1)" /\ stderr = <<"Cannot determine target kernel">>
          ELSE pc = "aborted" /\ stderr = <<"ValueError">>
  /\ Len(hist.trace) > 1 => Has(params, "KERNEL")

\* The resolver printed lines, none with the key 'Kernel', and the
\* pipeline ended with the diagnostic.
C8_Witness ==
  /\ pc = "exit(1)"
  /\ kernel_out # <<>>
  /\ NoKernelLine(kernel_out)
  /\ stderr = <<"Cannot determine target kernel">>

-----------------------------------------------------------------------------
(* Properties of the Log Reducer *)

Count(s, c) == Cardinality({i \in 1..Len(s) : s[i] = c})

\* The text before and after the first '=' of a line.
KeyText(line) ==
  LET t == Strip(line)
      i == CHOOSE j \in 1..Len(t) : t[j] = "=" /\ \A k \in 1..(j - 1) : t[k] # "="
  IN  SubSeq(t, 1, i - 1)

ValueText(line) ==
  LET t == Strip(line)
      i == CHOOSE j \in 1..Len(t) : t[j] = "=" /\ \A k \in 1..(j - 1) : t[k] # "="
  IN  SubSeq(t, i + 1, Len(t))

Unsigned(v) == IF v # <<>> /\ Head(v) \in {"-", "+"} THEN Tail(v) ELSE v

\* A base-10 integer: an optional sign and one or more decimal digits,
\* whitespace around it allowed.
Base10Integer(v) ==
  LET b == Unsigned(Strip(v))
  IN  b # <<>> /\ \A i \in 1..Len(b) : b[i] \in Digit

\* What int() takes: as above, and a single '_' between two digits.
IntLiteral(v) ==
  LET b == Unsigned(Strip(v))
  IN  /\ b # <<>>
      /\ \A i \in 1..Len(b) :
           \/ b[i] \in Digit
           \/ /\ b[i] = "_"
              /\ 1 < i /\ i < Len(b)
              /\ b[i - 1] \in Digit /\ b[i + 1] \in Digit

\* One '='-delimited key followed by a base-10 integer.
KeyAndBase10Integer(line) ==
  Count(Strip(line), "=") = 1 /\ Base10Integer(ValueText(line))

\* One '='-delimited key followed by what int() takes.
KeyAndIntLiteral(line) ==
  Count(Strip(line), "=") = 1 /\ IntLiteral(ValueText(line))

\* The lines each parser has printed, once the loop over them has run.
KernelLines ==
  IF StepsNamed("kernel_py") # {} /\ fs.messages.exists
  THEN ParserOutput(fs.messages) ELSE <<>>

UserLines ==
  IF StepsNamed("maxrss_py") # {} /\ fs.trackrss.exists
  THEN ParserOutput(fs.trackrss) ELSE <<>>

ReducedLines == KernelLines \o UserLines

\* The pipeline was aborted by the error e.
AbortedWith(e) ==
  pc = "aborted" /\ stderr # <<>> /\ stderr[Len(stderr)] \in e

-----------------------------------------------------------------------------
(* Properties of memmap_pages *)

\* The derivation has returned, for a page size that is a multiple of 1024.
MemmapDerived ==
  /\ StepsNamed("derive") # {}
  /\ pc # "aborted"
  /\ run_results[K("PAGESIZE")] >= 1024
  /\ run_results[K("PAGESIZE")] % 1024 = 0

\* memmap_pages for t KiB is at most (at least) the derived memmap_pages
\* when t is at most (at least) the VM's memory.
MonotoneAround(total_ram, pagesize, sizeofpage, memmap_pages) ==
  \A t \in RamValues :
    /\ t <= total_ram => MemmapPages(t, pagesize, sizeofpage) <= memmap_pages
    /\ t >= total_ram => MemmapPages(t, pagesize, sizeofpage) >= memmap_pages

\* C10 as stated: for a fixed PAGESIZE (a multiple of 1024) and any fixed
\* SIZEOFPAGE, memmap_pages does not decrease when TOTAL_RAM grows.
C10_AsStated ==
  MemmapDerived =>
    MonotoneAround(params.TOTAL_RAM, run_results[K("PAGESIZE")],
                   run_results[K("SIZEOFPAGE")], locals.memmap_pages[1])

\* The same for a SIZEOFPAGE that is not negative, which is every size a
\* page descriptor can have.
C10_MemmapMonotone ==
  (MemmapDerived /\ run_results[K("SIZEOFPAGE")] >= 0) =>
    MonotoneAround(params.TOTAL_RAM, run_results[K("PAGESIZE")],
                   run_results[K("SIZEOFPAGE")], locals.memmap_pages[1])

\* memmap_pages was derived and is larger than it is for 1 KiB.
C10_Witness ==
  /\ MemmapDerived
  /\ run_results[K("SIZEOFPAGE")] > 0
  /\ locals.memmap_pages[1] >
       MemmapPages(1, run_results[K("PAGESIZE")], run_results[K("SIZEOFPAGE")])

====
